---- MODULE Spec2Model ----
(***************************************************************************)
(* Model of the contact register of Lista_Comprimida_clean_code.py: the    *)
(* Contato entity, the e-mail generator, the record-set operations and the *)
(* JSON codec.                                                             *)
(*                                                                         *)
(* A Python str is a sequence of symbols.  A symbol is one character,      *)
(* except that a whole domain name ("gmail.com") is kept as one symbol:    *)
(* no operation of the program looks inside a domain name other than       *)
(* str.lower() and the e-mail validator.                                   *)
(***************************************************************************)
EXTENDS Integers, Sequences, FiniteSets, TLC

VARIABLES contatos, arquivo, chamada, principal, laco

vars == <<contatos, arquivo, chamada, principal, laco>>

(***************************************************************************)
(* Bounds of the model.                                                    *)
(***************************************************************************)
MaxQuantidade == 2

(***************************************************************************)
(* str                                                                     *)
(***************************************************************************)
Letras == {"a", "b", "c", "A", "B"}

Digitos == {"0", "1", "2", "3", "4", "5", "6", "7", "8", "9"}

NomesDeDominio == {"gmail.com", "hotmail.com", "yahoo.com.br", "outlook.com",
                   "GMAIL.COM", "badhost.com"}

\* str.lower(), one symbol
LowerSym(c) ==
    CASE c = "A" -> "a"
      [] c = "B" -> "b"
      [] c = "GMAIL.COM" -> "gmail.com"
      [] OTHER -> c

\* str.lower()
lower(s) == [i \in 1..Len(s) |-> LowerSym(s[i])]

\* t in s, for two str
Contem(s, t) ==
    \E i \in 0..(Len(s) - Len(t)) : SubSeq(s, i + 1, i + Len(t)) = t

\* the code point of a symbol that can occur in a nome
Ord(c) ==
    CASE c = " " -> 32
      [] c = "A" -> 65
      [] c = "B" -> 66
      [] c = "a" -> 97
      [] c = "b" -> 98
      [] c = "c" -> 99
      [] OTHER -> 0

\* s < t, the native ordering of str (by code point, a prefix first)
RECURSIVE StrMenor(_, _)
StrMenor(s, t) ==
    IF t = <<>> THEN FALSE
    ELSE IF s = <<>> THEN TRUE
    ELSE IF Ord(Head(s)) # Ord(Head(t)) THEN Ord(Head(s)) < Ord(Head(t))
    ELSE StrMenor(Tail(s), Tail(t))

\* str.split(): the maximal runs of non-blank symbols
RECURSIVE SplitAux(_, _, _)
SplitAux(s, atual, partes) ==
    IF s = <<>>
    THEN IF atual = <<>> THEN partes ELSE Append(partes, atual)
    ELSE IF Head(s) = " "
         THEN SplitAux(Tail(s), <<>>,
                       IF atual = <<>> THEN partes ELSE Append(partes, atual))
         ELSE SplitAux(Tail(s), Append(atual, Head(s)), partes)

split(s) == SplitAux(s, <<>>, <<>>)

\* the positions of '@' in a str
Arrobas(s) == {i \in 1..Len(s) : s[i] = "@"}

Max(S) == CHOOSE x \in S : \A y \in S : y <= x

\* s.split('@')[-1]
AposUltimoArroba(s) ==
    IF Arrobas(s) = {} THEN s ELSE SubSeq(s, Max(Arrobas(s)) + 1, Len(s))

\* str(n) of a natural number
RECURSIVE str(_)
str(n) ==
    LET d == CASE n % 10 = 0 -> "0" [] n % 10 = 1 -> "1" [] n % 10 = 2 -> "2"
               [] n % 10 = 3 -> "3" [] n % 10 = 4 -> "4" [] n % 10 = 5 -> "5"
               [] n % 10 = 6 -> "6" [] n % 10 = 7 -> "7" [] n % 10 = 8 -> "8"
               [] OTHER -> "9"
    IN  IF n < 10 THEN <<d>> ELSE Append(str(n \div 10), d)

(***************************************************************************)
(* Contato                                                                 *)
(***************************************************************************)
DOMINIOS_VALIDOS ==
    << <<"gmail.com">>, <<"hotmail.com">>, <<"yahoo.com.br">>, <<"outlook.com">> >>

Elementos(seq) == {seq[i] : i \in 1..Len(seq)}

\* the grammar of the local part: atoms of letters and digits joined by dots
LocalValido(l) ==
    /\ l # <<>>
    /\ \A i \in 1..Len(l) : l[i] \in Letras \cup Digitos \cup {"."}
    /\ l[1] # "."
    /\ l[Len(l)] # "."
    /\ \A i \in 1..(Len(l) - 1) : ~(l[i] = "." /\ l[i + 1] = ".")

\* whether a str is an address for EmailStr: local-part@domain-name
EmailSintatico(s) ==
    /\ Cardinality(Arrobas(s)) = 1
    /\ LET p == Max(Arrobas(s))
       IN  /\ LocalValido(SubSeq(s, 1, p - 1))
           /\ Len(s) = p + 1
           /\ s[p + 1] \in NomesDeDominio

\* the value EmailStr hands on: the address with its domain in lower case
EmailNormalizado(s) ==
    LET p == Max(Arrobas(s))
    IN  SubSeq(s, 1, p) \o lower(SubSeq(s, p + 1, Len(s)))

\* a validator that lets every domain through
validar_email_sem_lista(email) == TRUE

\* the field validator of Contato.email, run on the value of EmailStr
validar_email(email) == AposUltimoArroba(email) \in Elementos(DOMINIOS_VALIDOS)

\* the entries of the ValidationError of one construction (empty: none)
ErrosDeContato(nome, email) ==
    IF EmailSintatico(email) /\ validar_email(EmailNormalizado(email))
    THEN <<>>
    ELSE << [loc |-> "email", input |-> email] >>

\* Contato(id=id, nome=nome, email=email), when it validates
Contato(id, nome, email) ==
    [id |-> id, nome |-> nome, email |-> EmailNormalizado(email)]

(***************************************************************************)
(* uuid4 and list helpers                                                  *)
(***************************************************************************)
IdsDe(lista) == {lista[i].id : i \in 1..Len(lista)}

\* str(uuid4()): an identifier that no live object carries
uuid4(usados) == CHOOSE n \in 1..(Cardinality(usados) + 1) : n \notin usados

\* list.index(x): the first position holding a value equal to x
index(lista, x) == CHOOSE i \in 1..Len(lista) :
                       /\ lista[i] = x
                       /\ \A j \in 1..(i - 1) : lista[j] # x

\* the list after list.remove(x)
remove(lista, x) ==
    LET i == index(lista, x)
    IN  SubSeq(lista, 1, i - 1) \o SubSeq(lista, i + 1, Len(lista))

\* an argument as a function under @validate_call receives it: validation
\* builds a new list or set with the same elements, so what the function
\* does to its argument never reaches the object of the caller
validate_call(colecao) == colecao

SemErro == [tipo |-> "", erros |-> <<>>]

ValidationError(erros) == [tipo |-> "ValidationError", erros |-> erros]

(***************************************************************************)
(* Email generator                                                         *)
(***************************************************************************)
\* the loop as an if: one retry only
LacoEmailUmaVez(usuario, dominio, email, contador, emails_existentes) ==
    IF email \in emails_existentes
    THEN usuario \o str(contador) \o <<"@">> \o dominio
    ELSE email

\* the while loop of gerar_email_unico
RECURSIVE LacoEmail(_, _, _, _, _)
LacoEmail(usuario, dominio, email, contador, emails_existentes) ==
    IF email \in emails_existentes
    THEN LacoEmail(usuario, dominio,
                   usuario \o str(contador) \o <<"@">> \o dominio,
                   contador + 1, emails_existentes)
    ELSE email

\* escolha is the position random.choice picks in dominios.  The result
\* carries the returned e-mail and the set object of the callee after add
gerar_email_unico(nome, dominios, emails_existentes, escolha) ==
    LET partes == split(lower(nome))
    IN  IF partes = <<>>
        THEN [exc |-> [tipo |-> "IndexError", erros |-> <<>>],
              email |-> <<>>, emails_existentes |-> emails_existentes]
        ELSE LET usuario == partes[1] \o <<".">> \o partes[Len(partes)]
                 dominio == dominios[escolha]
                 email   == LacoEmail(usuario, dominio,
                                      usuario \o <<"@">> \o dominio,
                                      1, emails_existentes)
             IN  [exc |-> SemErro, email |-> email,
                  emails_existentes |-> emails_existentes \cup {email}]

\* escolha = <<position in nomes, position in dominios>>.  The result
\* carries, next to the contact, the set object of criar_contato after the
\* call of gerar_email_unico: that call received validate_call's copy, and
\* its add went to the copy
criar_contato(nomes, dominios, emails_existentes, escolha, id) ==
    LET nome == nomes[escolha[1]]
        r    == gerar_email_unico(nome, dominios,
                                  validate_call(emails_existentes), escolha[2])
    IN  IF r.exc # SemErro
        THEN [exc |-> r.exc, contato |-> <<>>,
              emails_existentes |-> emails_existentes]
        ELSE IF ErrosDeContato(nome, r.email) # <<>>
        THEN [exc |-> ValidationError(ErrosDeContato(nome, r.email)),
              contato |-> <<>>, emails_existentes |-> emails_existentes]
        ELSE [exc |-> SemErro, contato |-> Contato(id, nome, r.email),
              emails_existentes |-> emails_existentes]

\* the list comprehension of gerar_contatos, from its i-th element on:
\* emails_existentes is the set object of gerar_contatos, of which each
\* criar_contato call again receives validate_call's copy
RECURSIVE GerarLista(_, _, _, _, _, _, _)
GerarLista(i, quantidade, nomes, dominios, emails_existentes, escolhas, usados) ==
    IF i > quantidade
    THEN [exc |-> SemErro, lista |-> <<>>]
    ELSE LET id == uuid4(usados)
             c  == criar_contato(nomes, dominios,
                                 validate_call(emails_existentes),
                                 escolhas[i], id)
         IN  IF c.exc # SemErro
             THEN [exc |-> c.exc, lista |-> <<>>]
             ELSE LET resto == GerarLista(i + 1, quantidade, nomes, dominios,
                                          emails_existentes, escolhas,
                                          usados \cup {id})
                  IN  IF resto.exc # SemErro
                      THEN resto
                      ELSE [exc |-> SemErro,
                            lista |-> <<c.contato>> \o resto.lista]

gerar_contatos(quantidade, nomes, dominios_validos, escolhas, usados) ==
    GerarLista(1, quantidade, nomes, dominios_validos, {}, escolhas, usados)

(***************************************************************************)
(* Record set operations                                                   *)
(***************************************************************************)
\* a filter that compares the case as well
filtrar_por_nome_exato(lista, termo) ==
    LET Casa(contato) == Contem(contato.nome, termo)
    IN  SelectSeq(lista, Casa)

filtrar_por_nome(lista, termo) ==
    LET Casa(contato) == Contem(lower(contato.nome), lower(termo))
    IN  SelectSeq(lista, Casa)

\* a search that compares the case of the e-mail as well
ComEmailExato(encontrados, email) ==
    LET Casa(contato) == contato.email = email
    IN  SelectSeq(encontrados, Casa)

\* the contacts of encontrados whose e-mail is the given one ignoring case
ComEmail(encontrados, email) ==
    LET Casa(contato) == lower(contato.email) = lower(email)
    IN  SelectSeq(encontrados, Casa)

deletar_usuario_por_email(lista, nome, email) ==
    IF ~EmailSintatico(email)
    THEN [exc |-> ValidationError(<< [loc |-> "email", input |-> email] >>),
          ret |-> <<>>]
    ELSE LET arg         == validate_call(lista)
             encontrados == filtrar_por_nome(arg, nome)
             candidatos  == ComEmail(encontrados, EmailNormalizado(email))
         IN  [exc |-> SemErro,
              ret |-> IF candidatos # <<>>
                      THEN remove(arg, candidatos[1])
                      ELSE arg]

deletar_usuario_por_nome(lista, nome) ==
    LET arg         == validate_call(lista)
        encontrados == filtrar_por_nome(arg, nome)
    IN  IF encontrados = <<>>
        THEN [exc |-> SemErro, ret |-> arg, n |-> 0]
        ELSE IF Len(encontrados) = 1
        THEN [exc |-> SemErro, ret |-> remove(arg, encontrados[1]), n |-> 1]
        ELSE [exc |-> SemErro, ret |-> arg, n |-> Len(encontrados)]

\* a replacement that stores the new data before it validates them
SubstituirSemValidar(lista, contato, novo_nome, novo_email) ==
    [exc |-> SemErro,
     ret |-> [lista EXCEPT ![index(lista, contato)] =
                  [id |-> contato.id, nome |-> novo_nome, email |-> novo_email]]]

\* a replacement that lets the new Contato take a default id
SubstituirComNovoId(lista, contato, novo_nome, novo_email) ==
    IF ErrosDeContato(novo_nome, novo_email) # <<>>
    THEN [exc |-> ValidationError(ErrosDeContato(novo_nome, novo_email)),
          ret |-> <<>>]
    ELSE [exc |-> SemErro,
          ret |-> [lista EXCEPT ![index(lista, contato)] =
                       Contato(uuid4(IdsDe(lista)), novo_nome, novo_email)]]

\* lines 263-269 and 304-310: build the new Contato, then store it at the
\* position of the old one
Substituir(lista, contato, novo_nome, novo_email) ==
    IF ErrosDeContato(novo_nome, novo_email) # <<>>
    THEN [exc |-> ValidationError(ErrosDeContato(novo_nome, novo_email)),
          ret |-> <<>>]
    ELSE [exc |-> SemErro,
          ret |-> [lista EXCEPT ![index(lista, contato)] =
                       Contato(contato.id, novo_nome, novo_email)]]

atualizar_usuario_por_nome(lista, nome_antigo, novo_nome, novo_email) ==
    LET arg         == validate_call(lista)
        encontrados == filtrar_por_nome(arg, nome_antigo)
    IN  IF encontrados = <<>>
        THEN [exc |-> SemErro, ret |-> arg, n |-> 0]
        ELSE IF Len(encontrados) = 1
        THEN LET r == Substituir(arg, encontrados[1], novo_nome, novo_email)
             IN  [exc |-> r.exc, ret |-> r.ret, n |-> 1]
        ELSE [exc |-> SemErro, ret |-> arg, n |-> Len(encontrados)]

atualizar_usuario_por_email(lista, nome_antigo, email_antigo, novo_nome, novo_email) ==
    LET encontrados == filtrar_por_nome(lista, nome_antigo)
        candidatos  == ComEmail(encontrados, email_antigo)
    IN  IF candidatos # <<>>
        THEN Substituir(lista, candidatos[1], novo_nome, novo_email)
        ELSE [exc |-> SemErro, ret |-> lista]

\* an insertion that passes the elements of equal nome
RECURSIVE InserirInstavel(_, _)
InserirInstavel(ordenada, contato) ==
    IF ordenada = <<>>
    THEN <<contato>>
    ELSE IF ~StrMenor(ordenada[Len(ordenada)].nome, contato.nome)
    THEN Append(InserirInstavel(SubSeq(ordenada, 1, Len(ordenada) - 1), contato),
                ordenada[Len(ordenada)])
    ELSE Append(ordenada, contato)

\* sorted(contatos, key=nome): a stable insertion of each element in turn
RECURSIVE Inserir(_, _)
Inserir(ordenada, contato) ==
    IF ordenada = <<>>
    THEN <<contato>>
    ELSE IF StrMenor(contato.nome, ordenada[Len(ordenada)].nome)
    THEN Append(Inserir(SubSeq(ordenada, 1, Len(ordenada) - 1), contato),
                ordenada[Len(ordenada)])
    ELSE Append(ordenada, contato)

RECURSIVE sorted(_)
sorted(lista) ==
    IF lista = <<>> THEN <<>>
    ELSE Inserir(sorted(SubSeq(lista, 1, Len(lista) - 1)), lista[Len(lista)])

ordenar_por_nome(lista) == sorted(validate_call(lista))

(***************************************************************************)
(* Persistence codec.  The file holds a JSON array of {"contato": {...}}.  *)
(***************************************************************************)
ArquivoAusente == [existe |-> FALSE, dados |-> <<>>]

\* model_dump(by_alias=False) of one contact, under the key "contato"
Registro(contato) ==
    [contato |-> [id |-> contato.id, nome |-> contato.nome,
                  email |-> contato.email]]

\* the file exportar_para_json leaves behind
exportar_para_json(lista) ==
    [existe |-> TRUE, dados |-> [i \in 1..Len(lista) |-> Registro(lista[i])]]

IdsDoArquivo(arq) == {arq.dados[i].contato.id : i \in 1..Len(arq.dados)}

\* a load that skips the records that fail validation
RECURSIVE CarregarListaParcial(_, _, _)
CarregarListaParcial(dados, i, usados) ==
    IF i > Len(dados)
    THEN [exc |-> SemErro, lista |-> <<>>]
    ELSE LET dado == dados[i].contato
             id   == uuid4(usados)
         IN  IF ErrosDeContato(dado.nome, dado.email) # <<>>
             THEN CarregarListaParcial(dados, i + 1, usados)
             ELSE [exc |-> SemErro,
                   lista |-> <<Contato(id, dado.nome, dado.email)>>
                             \o CarregarListaParcial(dados, i + 1,
                                                     usados \cup {id}).lista]

\* the list comprehension of line 393, from the i-th record on
RECURSIVE CarregarLista(_, _, _)
CarregarLista(dados, i, usados) ==
    IF i > Len(dados)
    THEN [exc |-> SemErro, lista |-> <<>>]
    ELSE LET dado == dados[i].contato
             id   == uuid4(usados)
         IN  IF ErrosDeContato(dado.nome, dado.email) # <<>>
             THEN [exc |-> ValidationError(ErrosDeContato(dado.nome, dado.email)),
                   lista |-> <<>>]
             ELSE LET resto == CarregarLista(dados, i + 1, usados \cup {id})
                  IN  IF resto.exc # SemErro
                      THEN resto
                      ELSE [exc |-> SemErro,
                            lista |-> <<Contato(id, dado.nome, dado.email)>>
                                      \o resto.lista]

carregar_json(arq, usados) ==
    IF ~arq.existe
    THEN [exc |-> [tipo |-> "FileNotFoundError", erros |-> <<>>], lista |-> <<>>]
    ELSE CarregarLista(arq.dados, 1, usados)

(***************************************************************************)
(* Inputs of the operations                                                *)
(***************************************************************************)
ListasDeNomes == { << <<"A", "b">>, <<"a", " ", "c">> >> }

ListasDeDominios == { << <<"gmail.com">>, <<"badhost.com">> >> }

Termos == { <<>>, <<"a">>, <<"B">>, <<"c">> }

TermosDeBusca == { <<"a">>, <<"B">> }

NovosNomes == { <<"b">> }

NovosEmails == { <<"A", "@", "GMAIL.COM">>, <<"a", "@", "badhost.com">>,
                 <<"a", "b">> }

EmailsDeBusca == { <<"A", "B", ".", "A", "B", "@", "GMAIL.COM">>,
                   <<"a", "@", "gmail.com">>, <<"a", "b">> }

EmailsRuins == { <<"a", "@", "badhost.com">>, <<"a", "b">> }

\* the file an earlier session left at the path, its domains typed by hand
RegistroDe(id, nome, email) ==
    [contato |-> [id |-> id, nome |-> nome, email |-> email]]

ArquivoInicial ==
    [existe |-> TRUE,
     dados |-> << RegistroDe(1, <<"a", " ", "c">>, <<"a", "@", "gmail.com">>),
                  RegistroDe(2, <<"A", "b">>, <<"a", "@", "GMAIL.COM">>),
                  RegistroDe(3, <<"A", "b">>, <<"b", "@", "gmail.com">>) >>]

(***************************************************************************)
(* State: the record set of the session, the file at CAMINHO_ARQUIVO, the  *)
(* last call made with its arguments and outcome, the position of main and *)
(* whether its variable contatos is bound, and the locals of a call of     *)
(* gerar_email_unico that is under way.                                    *)
(***************************************************************************)
\* main is not running: the operations are called one by one
ForaDeMain == [pc |-> "fora", ligada |-> TRUE]

\* no call of gerar_email_unico is under way
LacoParado ==
    [pc |-> "fora", nome |-> <<>>, dominios |-> <<>>, escolha |-> 0,
     existentes |-> {}, usuario |-> <<>>, dominio |-> <<>>, email |-> <<>>,
     contador |-> 0, emails_existentes |-> {}]

Chamada(op, antes, args, exc, ret, n) ==
    [op |-> op, antes |-> antes, args |-> args, exc |-> exc, ret |-> ret,
     n |-> n]

Init ==
    /\ contatos = <<>>
    /\ arquivo = ArquivoInicial
    /\ chamada = Chamada("inicio", <<>>, <<>>, SemErro, <<>>, 0)
    /\ principal = ForaDeMain
    /\ laco = LacoParado

\* the identifiers live objects carry when a call builds a new record set
\* (the list in contatos is dropped by the assignment of the result)
Usados == IdsDoArquivo(arquivo)

\* contatos = gerar_contatos(quantidade, nomes, dominios)
GerarContatos ==
    \E quantidade \in 0..MaxQuantidade, nomes \in ListasDeNomes,
       dominios \in ListasDeDominios :
        \E escolhas \in [1..quantidade ->
                            (1..Len(nomes)) \X (1..Len(dominios))] :
            LET r == gerar_contatos(quantidade, nomes, dominios, escolhas, Usados)
            IN  /\ contatos' = IF r.exc = SemErro THEN r.lista ELSE contatos
                /\ chamada' = Chamada("gerar_contatos", <<>>,
                                      [quantidade |-> quantidade,
                                       nomes |-> nomes, dominios |-> dominios,
                                       escolhas |-> escolhas],
                                      r.exc, r.lista, 0)
                /\ UNCHANGED arquivo
                /\ UNCHANGED <<principal, laco>>

\* filtrar_por_nome(contatos, termo), the result only shown
FiltrarPorNome ==
    \E termo \in Termos :
        /\ chamada' = Chamada("filtrar_por_nome", contatos, [termo |-> termo],
                              SemErro, filtrar_por_nome(contatos, termo), 0)
        /\ UNCHANGED <<contatos, arquivo>>
        /\ UNCHANGED <<principal, laco>>

\* contatos = ordenar_por_nome(contatos)
OrdenarPorNome ==
    /\ contatos' = ordenar_por_nome(contatos)
    /\ chamada' = Chamada("ordenar_por_nome", contatos, <<>>, SemErro,
                          ordenar_por_nome(contatos), 0)
    /\ UNCHANGED arquivo
    /\ UNCHANGED <<principal, laco>>

\* contatos, tamanho = deletar_usuario_por_nome(contatos, nome)
DeletarPorNome ==
    \E nome \in TermosDeBusca :
        LET r == deletar_usuario_por_nome(contatos, nome)
        IN  /\ contatos' = r.ret
            /\ chamada' = Chamada("deletar_usuario_por_nome", contatos,
                                  [nome |-> nome], r.exc, r.ret, r.n)
            /\ UNCHANGED arquivo
            /\ UNCHANGED <<principal, laco>>

\* contatos = deletar_usuario_por_email(contatos, nome, email)
DeletarPorEmail ==
    \E nome \in TermosDeBusca, email \in EmailsDeBusca :
        LET r == deletar_usuario_por_email(contatos, nome, email)
        IN  /\ contatos' = IF r.exc = SemErro THEN r.ret ELSE contatos
            /\ chamada' = Chamada("deletar_usuario_por_email", contatos,
                                  [nome |-> nome, email |-> email],
                                  r.exc, r.ret, 0)
            /\ UNCHANGED arquivo
            /\ UNCHANGED <<principal, laco>>

\* contatos, tamanho = atualizar_usuario_por_nome(contatos, nome_antigo,
\*                                                novo_nome, novo_email)
AtualizarPorNome ==
    \E nome_antigo \in TermosDeBusca, novo_nome \in NovosNomes,
       novo_email \in NovosEmails :
        LET r == atualizar_usuario_por_nome(contatos, nome_antigo, novo_nome,
                                            novo_email)
        IN  /\ contatos' = IF r.exc = SemErro THEN r.ret ELSE contatos
            /\ chamada' = Chamada("atualizar_usuario_por_nome", contatos,
                                  [nome_antigo |-> nome_antigo,
                                   novo_nome |-> novo_nome,
                                   novo_email |-> novo_email],
                                  r.exc, r.ret, r.n)
            /\ UNCHANGED arquivo
            /\ UNCHANGED <<principal, laco>>

\* contatos = atualizar_usuario_por_email(contatos, nome_antigo, email_antigo,
\*                                        novo_nome, novo_email)
AtualizarPorEmail ==
    \E nome_antigo \in TermosDeBusca, email_antigo \in EmailsDeBusca,
       novo_nome \in NovosNomes, novo_email \in NovosEmails :
        LET r == atualizar_usuario_por_email(contatos, nome_antigo,
                                             email_antigo, novo_nome, novo_email)
        IN  /\ contatos' = IF r.exc = SemErro THEN r.ret ELSE contatos
            /\ chamada' = Chamada("atualizar_usuario_por_email", contatos,
                                  [nome_antigo |-> nome_antigo,
                                   email_antigo |-> email_antigo,
                                   novo_nome |-> novo_nome,
                                   novo_email |-> novo_email],
                                  r.exc, r.ret, 0)
            /\ UNCHANGED arquivo
            /\ UNCHANGED <<principal, laco>>

\* contatos = carregar_json(CAMINHO_ARQUIVO)
Carregar ==
    LET r == carregar_json(arquivo, Usados)
    IN  /\ contatos' = IF r.exc = SemErro THEN r.lista ELSE contatos
        /\ chamada' = Chamada("carregar_json", contatos, [arquivo |-> arquivo],
                              r.exc, r.lista, 0)
        /\ UNCHANGED arquivo
        /\ UNCHANGED <<principal, laco>>

\* exportar_para_json(contatos)
Exportar ==
    /\ arquivo' = exportar_para_json(contatos)
    /\ chamada' = Chamada("exportar_para_json", contatos, <<>>, SemErro, <<>>, 0)
    /\ UNCHANGED contatos
    /\ UNCHANGED <<principal, laco>>

\* somebody takes the file away
ApagarArquivo ==
    /\ arquivo.existe
    /\ arquivo' = ArquivoAusente
    /\ UNCHANGED <<contatos, chamada>>
    /\ UNCHANGED <<principal, laco>>

\* somebody edits the e-mail of one record of the file
EditarArquivo ==
    /\ arquivo.existe
    /\ \E i \in 1..Len(arquivo.dados), email \in EmailsRuins :
           arquivo' = [arquivo EXCEPT !.dados[i].contato.email = email]
    /\ UNCHANGED <<contatos, chamada>>
    /\ UNCHANGED <<principal, laco>>

Next ==
    \/ GerarContatos
    \/ FiltrarPorNome
    \/ OrdenarPorNome
    \/ DeletarPorNome
    \/ DeletarPorEmail
    \/ AtualizarPorNome
    \/ AtualizarPorEmail
    \/ Carregar

Spec == Init /\ [][Next]_vars

\* the record sets gerar_contatos can return in a session without a file
ListasGeradas ==
    { gerar_contatos(quantidade, nomes, dominios, escolhas, {}).lista :
        <<quantidade, nomes, dominios, escolhas>> \in
            UNION { UNION { UNION { { <<q, ns, ds, es>> :
                        es \in [1..q -> (1..Len(ns)) \X (1..Len(ds))] } :
                    ds \in ListasDeDominios } :
                ns \in ListasDeNomes } :
            q \in 0..MaxQuantidade } }

InitCodec ==
    /\ contatos \in ListasGeradas
    /\ arquivo = ArquivoAusente
    /\ chamada = Chamada("inicio", <<>>, <<>>, SemErro, <<>>, 0)
    /\ principal = ForaDeMain
    /\ laco = LacoParado

NextCodec ==
    \/ Exportar
    \/ EditarArquivo
    \/ ApagarArquivo
    \/ Carregar

SpecCodec == InitCodec /\ [][NextCodec]_vars

(***************************************************************************)
(* Direct calls of gerar_email_unico, with any set of existing e-mails.    *)
(***************************************************************************)
MaxSufixo == 2

NomesAvulsos == { <<"A", "b">>, <<"a", " ", "c">>, <<" ">> }

EmailDe(usuario, sufixo, dominio) == usuario \o sufixo \o <<"@">> \o dominio

EmailsJaCriados ==
    { EmailDe(<<"a", "b", ".", "a", "b">>, <<>>, <<"gmail.com">>),
      EmailDe(<<"a", "b", ".", "a", "b">>, <<>>, <<"badhost.com">>),
      EmailDe(<<"a", ".", "c">>, <<>>, <<"gmail.com">>) }
    \cup { EmailDe(<<"a", "b", ".", "a", "b">>, str(k), <<"gmail.com">>) :
               k \in 1..MaxSufixo }

InitEmail ==
    /\ contatos = <<>>
    /\ arquivo = ArquivoAusente
    /\ chamada = Chamada("inicio", <<>>, <<>>, SemErro, <<>>, 0)
    /\ principal = ForaDeMain
    /\ laco = LacoParado

\* email = gerar_email_unico(nome, dominios, emails_existentes)
ChamarGerarEmailUnico ==
    \E nome \in NomesAvulsos, dominios \in ListasDeDominios,
       emails_existentes \in SUBSET EmailsJaCriados :
        \E escolha \in 1..Len(dominios) :
            LET r == gerar_email_unico(nome, dominios,
                                       validate_call(emails_existentes), escolha)
            IN  /\ chamada' = Chamada("gerar_email_unico", <<>>,
                                      [nome |-> nome, dominios |-> dominios,
                                       emails_existentes |-> emails_existentes],
                                      r.exc, r.email, 0)
                /\ UNCHANGED <<contatos, arquivo>>
                /\ UNCHANGED <<principal, laco>>

NextEmail == ChamarGerarEmailUnico

SpecEmail == InitEmail /\ [][NextEmail]_vars

(***************************************************************************)
(* One call of gerar_email_unico, statement by statement.                  *)
(***************************************************************************)
\* a retry that forgets the number
CandidatoSemNumero(usuario, contador, dominio) == usuario \o <<"@">> \o dominio

\* the candidate of line 116
CandidatoNumerado(usuario, contador, dominio) ==
    usuario \o str(contador) \o <<"@">> \o dominio

InitLaco ==
    /\ contatos = <<>>
    /\ arquivo = ArquivoAusente
    /\ chamada = Chamada("inicio", <<>>, <<>>, SemErro, <<>>, 0)
    /\ principal = ForaDeMain
    /\ \E nome \in NomesAvulsos, dominios \in ListasDeDominios,
          existentes \in SUBSET EmailsJaCriados :
           \E escolha \in 1..Len(dominios) :
               laco = [LacoParado EXCEPT !.pc = "chamado", !.nome = nome,
                                         !.dominios = dominios,
                                         !.escolha = escolha,
                                         !.existentes = existentes]

\* lines 105 to 113: the first candidate and the counter
LacoPreparar ==
    /\ laco.pc = "chamado"
    /\ LET partes == split(lower(laco.nome))
       IN  IF partes = <<>>
           THEN laco' = [laco EXCEPT !.pc = "IndexError"]
           ELSE LET usuario == partes[1] \o <<".">> \o partes[Len(partes)]
                    dominio == laco.dominios[laco.escolha]
                IN  laco' = [laco EXCEPT
                                !.pc = "while",
                                !.usuario = usuario,
                                !.dominio = dominio,
                                !.email = usuario \o <<"@">> \o dominio,
                                !.contador = 1,
                                !.emails_existentes =
                                    validate_call(laco.existentes)]
    /\ UNCHANGED <<contatos, arquivo, chamada, principal>>

\* lines 114 to 117: the candidate is taken, try the next number
LacoIterar ==
    /\ laco.pc = "while"
    /\ laco.email \in laco.emails_existentes
    /\ laco' = [laco EXCEPT
                   !.email = CandidatoNumerado(laco.usuario, laco.contador,
                                               laco.dominio),
                   !.contador = laco.contador + 1]
    /\ UNCHANGED <<contatos, arquivo, chamada, principal>>

\* lines 114, 120 and 121: the candidate is free, add it and return it
LacoRetornar ==
    /\ laco.pc = "while"
    /\ laco.email \notin laco.emails_existentes
    /\ laco' = [laco EXCEPT
                   !.pc = "retornado",
                   !.emails_existentes = laco.emails_existentes \cup {laco.email}]
    /\ UNCHANGED <<contatos, arquivo, chamada, principal>>

NextLaco ==
    \/ LacoPreparar
    \/ LacoIterar
    \/ LacoRetornar

\* the interpreter runs the next statement of the call
SpecLaco == InitLaco /\ [][NextLaco]_vars /\ WF_vars(NextLaco)

(***************************************************************************)
(* main: the load at startup and the menu loop, one action per option.     *)
(***************************************************************************)
\* the file of the scenario: one record, of a domain outside the allow-list
ArquivoRuim ==
    [existe |-> TRUE,
     dados |-> << RegistroDe(1, <<"b">>, <<"a", "@", "badhost.com">>) >>]

\* a file of two records that validate
ArquivoBom ==
    [existe |-> TRUE, dados |-> SubSeq(ArquivoInicial.dados, 1, 2)]

ArquivosDaPartida == {ArquivoAusente, ArquivoBom, ArquivoRuim}

\* the largest quantidade typed at the menu
MaxGerados == 1

\* what is kept of an option of the menu: its number and the exception it
\* caught (what it printed is not kept)
Menu(opcao, exc, exibidos) == Chamada(opcao, <<>>, <<>>, exc, <<>>, 0)

\* before line 424 the name contatos is not bound
InitMain ==
    /\ contatos = <<>>
    /\ arquivo \in ArquivosDaPartida
    /\ chamada = Chamada("inicio", <<>>, <<>>, SemErro, <<>>, 0)
    /\ principal = [pc |-> "inicio", ligada |-> FALSE]
    /\ laco = LacoParado

NoMenu == principal.pc = "menu"

\* lines 424 to 432: the handler of ValidationError shows the errors and
\* binds nothing
MainIniciar ==
    /\ principal.pc = "inicio"
    /\ LET r == carregar_json(arquivo, Usados)
       IN  /\ contatos' = IF r.exc = SemErro THEN r.lista ELSE <<>>
           /\ principal' = [pc |-> "menu",
                            ligada |-> r.exc.tipo # "ValidationError"]
           /\ chamada' = Menu("carregar_json", r.exc, <<>>)
    /\ UNCHANGED <<arquivo, laco>>

\* option 1: contatos = gerar_contatos(quantidade), with NOMES and
\* DOMINIOS_VALIDOS
MainGerar ==
    /\ NoMenu
    /\ \E quantidade \in 0..MaxGerados, nomes \in ListasDeNomes :
        \E escolhas \in [1..quantidade ->
                            (1..Len(nomes)) \X (1..Len(DOMINIOS_VALIDOS))] :
            LET r == gerar_contatos(quantidade, nomes, DOMINIOS_VALIDOS,
                                    escolhas, Usados)
            IN  /\ contatos' = IF r.exc = SemErro THEN r.lista ELSE contatos
                /\ principal' = [principal EXCEPT
                                    !.ligada = principal.ligada
                                                 \/ r.exc = SemErro]
                /\ chamada' = Menu("1", r.exc, <<>>)
    /\ UNCHANGED <<arquivo, laco>>

\* option 2: the filtered contacts, sorted, are shown
MainFiltrar ==
    /\ NoMenu
    /\ principal.ligada
    /\ \E termo \in Termos :
           chamada' = Menu("2", SemErro,
                           ordenar_por_nome(filtrar_por_nome(contatos,
                                                             lower(termo))))
    /\ UNCHANGED <<contatos, arquivo, principal, laco>>

\* option 3
MainOrdenar ==
    /\ NoMenu
    /\ principal.ligada
    /\ contatos' = ordenar_por_nome(contatos)
    /\ chamada' = Menu("3", SemErro, ordenar_por_nome(contatos))
    /\ UNCHANGED <<arquivo, principal, laco>>

\* option 4
MainExibir ==
    /\ NoMenu
    /\ principal.ligada
    /\ chamada' = Menu("4", SemErro, contatos)
    /\ UNCHANGED <<contatos, arquivo, principal, laco>>

\* option 5
MainExportar ==
    /\ NoMenu
    /\ principal.ligada
    /\ arquivo' = exportar_para_json(contatos)
    /\ chamada' = Menu("5", SemErro, <<>>)
    /\ UNCHANGED <<contatos, principal, laco>>

\* option 6: the loaded contacts are shown and dropped; FileNotFoundError
\* is caught at line 505, ValidationError, a ValueError, at line 552
MainCarregar ==
    /\ NoMenu
    /\ LET r == carregar_json(arquivo, Usados \cup IdsDe(contatos))
       IN  chamada' = Menu("6", r.exc, r.lista)
    /\ UNCHANGED <<contatos, arquivo, principal, laco>>

\* option 7: the file is written unless deletar_usuario_por_email raised
MainDeletar ==
    /\ NoMenu
    /\ principal.ligada
    /\ \E nome \in TermosDeBusca, email \in EmailsDeBusca :
           LET r1 == deletar_usuario_por_nome(contatos, nome)
               r2 == IF r1.n > 1
                     THEN deletar_usuario_por_email(r1.ret, nome, email)
                     ELSE [exc |-> SemErro, ret |-> r1.ret]
               novos == IF r2.exc = SemErro THEN r2.ret ELSE r1.ret
           IN  /\ contatos' = novos
               /\ arquivo' = IF r2.exc = SemErro
                             THEN exportar_para_json(novos)
                             ELSE arquivo
               /\ chamada' = Menu("7", r2.exc, <<>>)
    /\ UNCHANGED <<principal, laco>>

\* option 8: the file is written unless one of the two updates raised
MainAtualizar ==
    /\ NoMenu
    /\ principal.ligada
    /\ \E nome_antigo \in TermosDeBusca, email_antigo \in EmailsDeBusca,
          novo_nome \in NovosNomes, novo_email \in NovosEmails :
           LET r1 == atualizar_usuario_por_nome(contatos, nome_antigo,
                                                novo_nome, novo_email)
               r2 == IF r1.exc = SemErro /\ r1.n > 1
                     THEN atualizar_usuario_por_email(r1.ret, nome_antigo,
                                                      email_antigo, novo_nome,
                                                      novo_email)
                     ELSE [exc |-> r1.exc, ret |-> r1.ret]
               novos == IF r1.exc # SemErro THEN contatos
                        ELSE IF r2.exc # SemErro THEN r1.ret
                        ELSE r2.ret
           IN  /\ contatos' = novos
               /\ arquivo' = IF r2.exc = SemErro
                             THEN exportar_para_json(novos)
                             ELSE arquivo
               /\ chamada' = Menu("8", r2.exc, <<>>)
    /\ UNCHANGED <<principal, laco>>

\* option 9
MainSair ==
    /\ NoMenu
    /\ principal' = [principal EXCEPT !.pc = "fim"]
    /\ chamada' = Menu("9", SemErro, <<>>)
    /\ UNCHANGED <<contatos, arquivo, laco>>

\* another number, or an input that int() refuses (line 552)
MainOpcaoInvalida ==
    /\ NoMenu
    /\ chamada' = Menu("invalida", SemErro, <<>>)
    /\ UNCHANGED <<contatos, arquivo, principal, laco>>

\* the options that read contatos
OpcoesQueLeem == {"2", "3", "4", "5", "7", "8"}

\* reading the unbound name raises UnboundLocalError, which no handler of
\* main catches: the program ends with a traceback
MainAbortar ==
    /\ NoMenu
    /\ ~principal.ligada
    /\ \E opcao \in OpcoesQueLeem :
           /\ principal' = [principal EXCEPT !.pc = "UnboundLocalError"]
           /\ chamada' = Menu(opcao, [tipo |-> "UnboundLocalError",
                                      erros |-> <<>>], <<>>)
    /\ UNCHANGED <<contatos, arquivo, laco>>

NextMain ==
    \/ MainIniciar
    \/ MainGerar
    \/ MainFiltrar
    \/ MainOrdenar
    \/ MainExibir
    \/ MainExportar
    \/ MainCarregar
    \/ MainDeletar
    \/ MainAtualizar
    \/ MainSair
    \/ MainOpcaoInvalida
    \/ MainAbortar

SpecMain == InitMain /\ [][NextMain]_vars

(***************************************************************************)
(* Properties                                                              *)
(***************************************************************************)
CamposDe(arq) == [i \in 1..Len(arq.dados) |-> arq.dados[i].contato]

\* C1: exportar_para_json followed by carregar_json of the same file returns
\* a list of the same length and order in which each contact has the id,
\* nome and email of the exported one.
C1_IdaEVolta ==
    (chamada.op = "carregar_json" /\ chamada.exc = SemErro)
        => chamada.ret = CamposDe(chamada.args.arquivo)

\* C2: the contacts returned by one gerar_contatos call have pairwise
\* distinct e-mails.
C2_EmailsDistintos ==
    (chamada.op = "gerar_contatos" /\ chamada.exc = SemErro)
        => \A i, j \in 1..Len(chamada.ret) :
               i # j => chamada.ret[i].email # chamada.ret[j].email

\* the records of a file that fail the validation of Contato
Ruins(arq) ==
    {i \in 1..Len(arq.dados) :
        ErrosDeContato(arq.dados[i].contato.nome,
                       arq.dados[i].contato.email) # <<>>}

Min(S) == CHOOSE x \in S : \A y \in S : x <= y

\* C3 as stated: a load of a file with offending records fails as a whole
\* with a validation error that enumerates every offending record.
C3_TodosOsRegistros ==
    (chamada.op = "carregar_json" /\ Ruins(chamada.args.arquivo) # {})
        => /\ chamada.exc.tipo = "ValidationError"
           /\ contatos = chamada.antes
           /\ \A i \in Ruins(chamada.args.arquivo) :
                  \E k \in 1..Len(chamada.exc.erros) :
                      chamada.exc.erros[k].input =
                          chamada.args.arquivo.dados[i].contato.email

\* C3 amended: a load of a file with offending records fails as a whole with
\* a validation error (no list is returned, the record set stays as it was)
\* and the error reports the first offending record of the file only.
C3_PrimeiroRegistro ==
    (chamada.op = "carregar_json" /\ Ruins(chamada.args.arquivo) # {})
        => LET dado == chamada.args.arquivo.dados[
                           Min(Ruins(chamada.args.arquivo))].contato
           IN  /\ chamada.exc =
                      ValidationError(<< [loc |-> "email", input |-> dado.email] >>)
               /\ chamada.ret = <<>>
               /\ contatos = chamada.antes

\* a load of a file with two offending records, in a session with records
C3_Witness ==
    /\ chamada.op = "carregar_json"
    /\ Cardinality(Ruins(chamada.args.arquivo)) >= 2
    /\ chamada.exc.tipo = "ValidationError"
    /\ chamada.antes # <<>>

\* C7: gerar_email_unico never returns an e-mail that was a member of
\* emails_existentes at the time of the call.
C7_EmailNovo ==
    (chamada.op = "gerar_email_unico" /\ chamada.exc = SemErro)
        => chamada.ret \notin chamada.args.emails_existentes

\* a call that found its first candidate and the candidate with suffix 1
\* taken
C7_Witness ==
    /\ chamada.op = "gerar_email_unico"
    /\ chamada.exc = SemErro
    /\ EmailDe(<<"a", "b", ".", "a", "b">>, <<>>, <<"gmail.com">>)
           \in chamada.args.emails_existentes
    /\ EmailDe(<<"a", "b", ".", "a", "b">>, <<"1">>, <<"gmail.com">>)
           \in chamada.args.emails_existentes
    /\ chamada.ret = EmailDe(<<"a", "b", ".", "a", "b">>, <<"2">>, <<"gmail.com">>)

\* the positions of the contacts whose nome contains the text, ignoring case
CasamNome(lista, termo) ==
    {i \in 1..Len(lista) : Contem(lower(lista[i].nome), lower(termo))}

\* the positions of the contacts that match the nome and carry the e-mail,
\* ignoring case
CasamNomeEEmail(lista, termo, email) ==
    {i \in CasamNome(lista, termo) : lower(lista[i].email) = lower(email)}

SemPosicao(lista, i) == SubSeq(lista, 1, i - 1) \o SubSeq(lista, i + 1, Len(lista))

\* the list with the contact at position i replaced by one of the same id
ComNovosDados(lista, i, novo_nome, novo_email) ==
    [lista EXCEPT ![i] = [id |-> lista[i].id, nome |-> novo_nome,
                          email |-> EmailNormalizado(novo_email)]]

\* new data that Contato accepts: a well-formed address of an allow-listed
\* domain (the domain compared as a domain name, without regard to case)
OutroDominio(email) ==
    lower(AposUltimoArroba(email)) \notin Elementos(DOMINIOS_VALIDOS)

DadosValidos(email) == EmailSintatico(email) /\ ~OutroDominio(email)

\* C4: deletar_usuario_por_nome with zero matches returns the records
\* unchanged and 0, with one match the records without that contact and 1,
\* with more matches the records unchanged and the number of matches.
C4_DeletarPorNome ==
    chamada.op = "deletar_usuario_por_nome"
        => LET casam == CasamNome(chamada.antes, chamada.args.nome)
           IN  /\ chamada.exc = SemErro
               /\ chamada.n = Cardinality(casam)
               /\ contatos = chamada.ret
               /\ chamada.ret = IF Cardinality(casam) = 1
                                THEN SemPosicao(chamada.antes, Min(casam))
                                ELSE chamada.antes

\* the text "B" finds "Ab" alone, the second of two contacts
C4_Witness ==
    /\ chamada.op = "deletar_usuario_por_nome"
    /\ chamada.args.nome = <<"B">>
    /\ Len(chamada.antes) >= 2
    /\ CasamNome(chamada.antes, chamada.args.nome) = {2}
    /\ chamada.n = 1
    /\ Len(chamada.ret) = Len(chamada.antes) - 1

PorEmailAge(casam) ==
    /\ chamada.op = "deletar_usuario_por_email"
           => /\ chamada.exc = SemErro
              /\ chamada.ret = SemPosicao(chamada.antes, Min(casam))
              /\ contatos = chamada.ret
    /\ (chamada.op = "atualizar_usuario_por_email"
            /\ DadosValidos(chamada.args.novo_email))
           => /\ chamada.exc = SemErro
              /\ chamada.ret = ComNovosDados(chamada.antes, Min(casam),
                                             chamada.args.novo_nome,
                                             chamada.args.novo_email)
              /\ contatos = chamada.ret

EmailProcurado ==
    IF chamada.op = "deletar_usuario_por_email"
    THEN chamada.args.email
    ELSE chamada.args.email_antigo

NomeProcurado ==
    IF chamada.op = "deletar_usuario_por_email"
    THEN chamada.args.nome
    ELSE chamada.args.nome_antigo

PorEmail ==
    chamada.op \in {"deletar_usuario_por_email", "atualizar_usuario_por_email"}

\* C8 as stated: the by-email operations act on the contact that matches the
\* nome and has the given e-mail ignoring case; when there is none, the
\* record set is returned unchanged and no exception is raised.
C8_SemExcecao ==
    PorEmail
        => LET casam == CasamNomeEEmail(chamada.antes, NomeProcurado,
                                        EmailProcurado)
           IN  IF casam = {}
               THEN /\ chamada.exc = SemErro
                    /\ chamada.ret = chamada.antes
                    /\ contatos = chamada.antes
               ELSE PorEmailAge(casam)

\* C8 amended: as stated, except that deletar_usuario_por_email, which
\* validates its email argument as an address, raises ValidationError for a
\* malformed e-mail and leaves the record set unchanged.
C8_PorEmail ==
    PorEmail
        => LET casam == CasamNomeEEmail(chamada.antes, NomeProcurado,
                                        EmailProcurado)
           IN  IF chamada.op = "deletar_usuario_por_email"
                  /\ ~EmailSintatico(chamada.args.email)
               THEN /\ chamada.exc.tipo = "ValidationError"
                    /\ contatos = chamada.antes
               ELSE IF casam = {}
               THEN /\ chamada.exc = SemErro
                    /\ chamada.ret = chamada.antes
                    /\ contatos = chamada.antes
               ELSE PorEmailAge(casam)

\* two contacts match the nome and carry the e-mail, given in capitals: the
\* first of them is removed
C8_Witness ==
    /\ chamada.op = "deletar_usuario_por_email"
    /\ Cardinality(CasamNomeEEmail(chamada.antes, chamada.args.nome,
                                   chamada.args.email)) = 2
    /\ chamada.args.email \notin {chamada.antes[i].email :
                                      i \in 1..Len(chamada.antes)}
    /\ Len(chamada.ret) = Len(chamada.antes) - 1

\* p maps the positions of the result to the positions of the input
Permutacoes(n) == {p \in [1..n -> 1..n] : \A i, j \in 1..n : i # j => p[i] # p[j]}

\* C9: ordenar_por_nome returns a permutation of its input in non-decreasing
\* order of nome that keeps contacts of equal nome in their input order, and
\* sorting the result returns an equal sequence.
C9_Ordenar ==
    chamada.op = "ordenar_por_nome"
        => /\ Len(chamada.ret) = Len(chamada.antes)
           /\ \E p \in Permutacoes(Len(chamada.antes)) :
                  /\ \A i \in 1..Len(chamada.ret) :
                         chamada.ret[i] = chamada.antes[p[i]]
                  /\ \A i, j \in 1..Len(chamada.ret) :
                         (i < j /\ chamada.ret[i].nome = chamada.ret[j].nome)
                             => p[i] < p[j]
           /\ \A i \in 1..(Len(chamada.ret) - 1) :
                  ~StrMenor(chamada.ret[i + 1].nome, chamada.ret[i].nome)
           /\ ordenar_por_nome(chamada.ret) = chamada.ret

\* an input out of order that holds two distinct contacts of equal nome
C9_Witness ==
    /\ chamada.op = "ordenar_por_nome"
    /\ chamada.ret # chamada.antes
    /\ \E i, j \in 1..Len(chamada.antes) :
           /\ i < j
           /\ chamada.antes[i].nome = chamada.antes[j].nome
           /\ chamada.antes[i] # chamada.antes[j]

\* C10: an update that reaches its contact with a new email that is
\* malformed or of a domain outside the allow-list raises ValidationError
\* and leaves the record set as it was before the call.
C10_AtualizacaoAtomica ==
    /\ (chamada.op = "atualizar_usuario_por_nome"
            /\ Cardinality(CasamNome(chamada.antes, chamada.args.nome_antigo)) = 1
            /\ ~DadosValidos(chamada.args.novo_email))
           => /\ chamada.exc.tipo = "ValidationError"
              /\ contatos = chamada.antes
    /\ (chamada.op = "atualizar_usuario_por_email"
            /\ CasamNomeEEmail(chamada.antes, chamada.args.nome_antigo,
                               chamada.args.email_antigo) # {}
            /\ ~DadosValidos(chamada.args.novo_email))
           => /\ chamada.exc.tipo = "ValidationError"
              /\ contatos = chamada.antes

C10_Witness ==
    /\ chamada.op = "atualizar_usuario_por_nome"
    /\ Cardinality(CasamNome(chamada.antes, chamada.args.nome_antigo)) = 1
    /\ chamada.args.novo_email = <<"a", "b">>
    /\ chamada.exc.tipo = "ValidationError"
    /\ Len(contatos) >= 2

\* C12: the retry loop of gerar_email_unico terminates: the number starts
\* at 1 and grows by one on each retry with the local part and the domain
\* held fixed, and a candidate that is not in the set is reached and
\* returned.
C12_LacoTermina ==
    /\ [][/\ (laco.pc = "chamado" /\ laco'.pc = "while")
                => laco'.contador = 1
          /\ (laco.pc = "while" /\ laco'.pc = "while")
                => /\ laco'.email = laco.usuario \o str(laco.contador)
                                        \o <<"@">> \o laco.dominio
                   /\ laco'.contador = laco.contador + 1
                   /\ laco'.usuario = laco.usuario
                   /\ laco'.dominio = laco.dominio
                   /\ laco'.emails_existentes = laco.emails_existentes]_vars
    /\ (laco.pc = "while")
           ~> (laco.pc = "retornado" /\ laco.email \notin laco.existentes)

\* a call that returned after the retries 1 and 2, with the e-mail the
\* function computes
C12_Witness ==
    /\ laco.pc = "retornado"
    /\ laco.contador = MaxSufixo + 1
    /\ laco.email = laco.usuario \o str(MaxSufixo) \o <<"@">> \o laco.dominio
    /\ laco.email = gerar_email_unico(laco.nome, laco.dominios,
                                      laco.existentes, laco.escolha).email

\* C11: whatever the outcome of the load at startup, contatos is bound to
\* a list before the menu loop starts, and no option aborts the program
\* with an unbound-variable error.
C11_ContatosLigada ==
    /\ principal.pc = "menu" => principal.ligada
    /\ principal.pc # "UnboundLocalError"

====
